---- MODULE Spec2Model ----
(***************************************************************************)
(* Loan optimiser (finance_optim.py): the French-system schedule generator *)
(* generar_cuadro_marcha and the bounded search optimizar_prestamo.        *)
(*                                                                         *)
(* Python floats are binary floating-point numbers.  They are modelled as  *)
(* pairs <<m, e>> standing for m * 2^e with a Prec-bit significand and     *)
(* round-to-nearest-even after every operation, so that rounding drift is  *)
(* part of the model.  The exponent is unbounded: the inputs the form can  *)
(* supply stay far from the overflow threshold of a double.                *)
(***************************************************************************)
EXTENDS Integers, Sequences, FiniteSets

\* ------------------------------------------------------------------ bounds

\* Significand width of the modelled floating-point format.
Prec == 6

\* Largest instalment count the model explores (the slider allows 120).
MaxN == 3

\* ------------------------------------------------------- floating point

RECURSIVE Pow2(_)
Pow2(k) == IF k <= 0 THEN 1 ELSE 2 * Pow2(k - 1)

RECURSIVE BitLen(_)
BitLen(a) == IF a = 0 THEN 0 ELSE 1 + BitLen(a \div 2)

Abs(x) == IF x < 0 THEN -x ELSE x

Sgn(x) == IF x < 0 THEN -1 ELSE IF x > 0 THEN 1 ELSE 0

Zero == <<0, 0>>

\* The float nearest to N * 2^e, ties to even.
Round(N, e) ==
    IF N = 0 THEN Zero
    ELSE LET a == Abs(N)
             s == BitLen(a) - Prec
         IN  IF s <= 0 THEN <<N * Pow2(-s), e + s>>
             ELSE LET q    == a \div Pow2(s)
                      r    == a % Pow2(s)
                      half == Pow2(s - 1)
                      q1   == IF r > half \/ (r = half /\ q % 2 = 1)
                              THEN q + 1 ELSE q
                  IN  IF q1 = Pow2(Prec)
                      THEN <<Sgn(N) * Pow2(Prec - 1), e + s + 1>>
                      ELSE <<Sgn(N) * q1, e + s>>

\* int -> float conversion.
FromInt(k) == Round(k, 0)

One == FromInt(1)

FNeg(a) == <<-a[1], a[2]>>

FAdd(a, b) ==
    IF a[1] = 0 THEN b
    ELSE IF b[1] = 0 THEN a
    ELSE IF a[2] - b[2] > Prec + 1 THEN a
    ELSE IF b[2] - a[2] > Prec + 1 THEN b
    ELSE LET e == IF a[2] < b[2] THEN a[2] ELSE b[2]
         IN  Round(a[1] * Pow2(a[2] - e) + b[1] * Pow2(b[2] - e), e)

FSub(a, b) == FAdd(a, FNeg(b))

FMul(a, b) == Round(a[1] * b[1], a[2] + b[2])

\* a / b for b # 0: the quotient to Prec + 2 bits and a sticky bit, rounded.
FDiv(a, b) ==
    IF a[1] = 0 THEN Zero
    ELSE LET num == Abs(a[1]) * Pow2(Prec + 2)
             den == Abs(b[1])
             q   == num \div den
             st  == IF num % den = 0 THEN 0 ELSE 1
         IN  Round(Sgn(a[1]) * Sgn(b[1]) * (2 * q + st), a[2] - b[2] - Prec - 3)

FLt(a, b) ==
    IF a[1] > 0 /\ b[1] > 0
    THEN a[2] < b[2] \/ (a[2] = b[2] /\ a[1] < b[1])
    ELSE IF a[1] < 0 /\ b[1] < 0
    THEN a[2] > b[2] \/ (a[2] = b[2] /\ a[1] < b[1])
    ELSE a[1] < b[1]

FLe(a, b) == a = b \/ FLt(a, b)

\* x ** k for an integer k >= 0 (one rounding, as the C library's pow).
RECURSIVE IntPow(_, _)
IntPow(m, k) == IF k = 0 THEN 1 ELSE m * IntPow(m, k - 1)

FPow(x, k) == Round(IntPow(x[1], k), k * x[2])

\* float('inf'): above every finite float; only ever compared.
Inf == <<Pow2(Prec - 1), 1024>>


\* ------------------------------------------------------------- inputs

\* Values the callers supply (each a float of the modelled format).
MontoSet  == {FromInt(1024), FromInt(2048)}
TnaSet    == {Zero, Round(3, -2), Round(77, -6)}
GastosSet == {Zero, FromInt(15)}
IvaSet    == {Zero, Round(1, -1)}
CuotaMaxSet == {FromInt(1024), FromInt(1376)}

\* ------------------------------------------------ generar_cuadro_marcha

TasaMensual(tna) == FDiv(tna, FromInt(12))

\* numpy_financial.pmt(rate, nper, pv) with fv = 0, when = 'end', rate > 0.
NpfPmt(rate, nper, pv) ==
    LET temp == FPow(FAdd(One, rate), nper)
        fact == FDiv(FMul(FAdd(One, FMul(rate, Zero)), FSub(temp, One)), rate)
    IN  IF fact = Zero THEN Inf
        ELSE FNeg(FDiv(FAdd(Zero, FMul(pv, temp)), fact))

\* Mutant: the zero-rate branch forgets to divide by n_cuotas.
CuotaPuraSinDividir(monto_prestamo, n_cuotas, tasa_mensual) ==
    IF FLt(Zero, tasa_mensual)
    THEN NpfPmt(tasa_mensual, n_cuotas, FNeg(monto_prestamo))
    ELSE IF n_cuotas > 0 THEN monto_prestamo ELSE Zero

CuotaPura(monto_prestamo, n_cuotas, tasa_mensual) ==
    IF FLt(Zero, tasa_mensual)
    THEN NpfPmt(tasa_mensual, n_cuotas, FNeg(monto_prestamo))
    ELSE IF n_cuotas > 0 THEN FDiv(monto_prestamo, FromInt(n_cuotas)) ELSE Zero

\* Mutant: the last period's amortization is not forced.
AmortizacionSinForzar(periodo, n_cuotas, cuota_pura, interes_mes, saldo_pendiente) ==
    FSub(cuota_pura, interes_mes)

\* Mutant: the forcing is applied one period early.
AmortizacionForzadaAntes(periodo, n_cuotas, cuota_pura, interes_mes, saldo_pendiente) ==
    IF periodo = n_cuotas - 1 THEN saldo_pendiente
    ELSE FSub(cuota_pura, interes_mes)

AmortizacionCapital(periodo, n_cuotas, cuota_pura, interes_mes, saldo_pendiente) ==
    IF periodo = n_cuotas THEN saldo_pendiente
    ELSE FSub(cuota_pura, interes_mes)

\* Mutant: tax is charged on the whole pure installment, not on the interest.
TotalGastosIvaSobreCuota(cuota_pura, interes_mes, gastos_admin_fijos, iva) ==
    FAdd(FAdd(gastos_admin_fijos, FMul(cuota_pura, iva)),
         FMul(gastos_admin_fijos, iva))

TotalGastosImpuestos(cuota_pura, interes_mes, gastos_admin_fijos, iva) ==
    FAdd(FAdd(gastos_admin_fijos, FMul(interes_mes, iva)),
         FMul(gastos_admin_fijos, iva))

\* One pass of the loop body: the row of `periodo`.
Fila(periodo, n_cuotas, saldo_pendiente, cuota_pura, tasa_mensual, gastos_admin_fijos, iva) ==
    LET interes_mes == FMul(saldo_pendiente, tasa_mensual)
        amortizacion_capital ==
            AmortizacionCapital(periodo, n_cuotas, cuota_pura, interes_mes,
                                saldo_pendiente)
        saldo_final == FSub(saldo_pendiente, amortizacion_capital)
        iva_sobre_intereses == FMul(interes_mes, iva)
        iva_sobre_gastos == FMul(gastos_admin_fijos, iva)
        total_gastos_impuestos ==
            TotalGastosImpuestos(cuota_pura, interes_mes, gastos_admin_fijos, iva)
    IN  [ NCuota       |-> periodo,
          SaldoInicial |-> saldo_pendiente,
          CuotaPura    |-> cuota_pura,
          Interes      |-> interes_mes,
          Amortizacion |-> amortizacion_capital,
          GastosAdmin  |-> gastos_admin_fijos,
          IVA          |-> FAdd(iva_sobre_intereses, iva_sobre_gastos),
          CuotaTotal   |-> FAdd(cuota_pura, total_gastos_impuestos),
          SaldoFinal   |-> saldo_final ]

\* Mutant: saldo_pendiente is never updated.
SaldoSinActualizar(fila) == fila.SaldoInicial

\* The balance the next pass starts from.
SaldoSiguiente(fila) == fila.SaldoFinal

\* The loop over periodo = desde .. n_cuotas, appending to cuadro_data.
RECURSIVE CuadroData(_, _, _, _, _, _, _, _)
CuadroData(desde, n_cuotas, saldo_pendiente, cuota_pura, tasa_mensual, gastos_admin_fijos, iva, cuadro_data) ==
    IF desde > n_cuotas THEN cuadro_data
    ELSE LET fila == Fila(desde, n_cuotas, saldo_pendiente, cuota_pura,
                          tasa_mensual, gastos_admin_fijos, iva)
         IN  CuadroData(desde + 1, n_cuotas, SaldoSiguiente(fila), cuota_pura,
                        tasa_mensual, gastos_admin_fijos, iva,
                        Append(cuadro_data, fila))

\* The rows generar_cuadro_marcha builds for its arguments.
Cuadro(monto_prestamo, n_cuotas, tna, gastos_admin_fijos, iva_porcentaje) ==
    CuadroData(1, n_cuotas, monto_prestamo,
               CuotaPura(monto_prestamo, n_cuotas, TasaMensual(tna)),
               TasaMensual(tna), gastos_admin_fijos, iva_porcentaje, <<>>)

\* flujo_caja_cft: the disbursement, then every period's total payment.
FlujoCaja(monto_prestamo, cuadro) ==
    <<FNeg(monto_prestamo)>> \o [i \in 1..Len(cuadro) |-> cuadro[i].CuotaTotal]

\* DataFrame column sum: the values added in row order.
RECURSIVE ColSum(_, _, _)
ColSum(cuadro, col, k) ==
    IF k = 0 THEN Zero ELSE FAdd(ColSum(cuadro, col, k - 1), cuadro[k][col])

ColMean(cuadro, col) == FDiv(ColSum(cuadro, col, Len(cuadro)), FromInt(Len(cuadro)))

\* What numpy_financial.irr can hand back: a periodic rate, nan (no real
\* root), None, or a ValueError (numpy's LinAlgError is one).  The root
\* finder is outside this repository; every outcome is allowed.
IrrRates == {FNeg(One), Round(1, -3), Round(1, -2)}

NpfIrr(values) ==
    {[kind |-> "rate", r |-> x] : x \in IrrRates}
    \cup {[kind |-> k, r |-> Zero] : k \in {"nan", "None", "ValueError"}}

\* x ** 12 by squaring and multiplying, rounded at every step.
Pow12(x) ==
    LET x2 == FMul(x, x)
        x3 == FMul(x2, x)
        x6 == FMul(x3, x3)
    IN  FMul(x6, x6)

\* Mutant: the guard admits a periodic rate of exactly -1.
TasaUtilizableInclusive(cft_mensual) ==
    cft_mensual.kind = "rate" /\ FLe(FNeg(One), cft_mensual.r)

\* cft_mensual is not None and cft_mensual > -1 (nan compares false).
TasaUtilizable(cft_mensual) ==
    cft_mensual.kind = "rate" /\ FLt(FNeg(One), cft_mensual.r)

\* The try/except block: cft_anual.
CftAnual(cft_mensual) ==
    IF cft_mensual.kind = "ValueError" THEN Zero
    ELSE IF TasaUtilizable(cft_mensual)
         THEN FSub(Pow12(FAdd(One, cft_mensual.r)), One)
         ELSE Zero

Metricas(cuadro, n_cuotas, cft_mensual) ==
    [ n_cuotas |-> n_cuotas,
      cuota_total_promedio |-> ColMean(cuadro, "CuotaTotal"),
      cft |-> FMul(CftAnual(cft_mensual), FromInt(100)) ]


\* -------------------------------------------------------------- state

VARIABLES
    op,                  \* entry point called: "generar" or "optimizar"
    pc,                  \* "start", "loop", "returned", "raised", "done"
    monto_prestamo, tna, gastos_admin_fijos, iva_porcentaje,
    n_cuotas,            \* generar_cuadro_marcha's n_cuotas (direct call)
    cuota_maxima_pagar, rango_cuotas,
    n,                   \* optimizar_prestamo's loop variable
    mejor_opcion, resultados_validos,
    cft_mensual,         \* what npf.irr handed to the last direct call
    cuadro_df, metricas, \* what the last direct call returned
    retorno,             \* what optimizar_prestamo returned
    excepcion,           \* the exception that ended the call, or "none"
    cuadro_optimo        \* the schedule shown for the best plan

vars == <<op, pc, monto_prestamo, tna, gastos_admin_fijos, iva_porcentaje,
          n_cuotas, cuota_maxima_pagar, rango_cuotas, n, mejor_opcion,
          resultados_validos, cft_mensual, cuadro_df, metricas, retorno,
          excepcion, cuadro_optimo>>

args == <<op, monto_prestamo, tna, gastos_admin_fijos, iva_porcentaje,
          n_cuotas, cuota_maxima_pagar, rango_cuotas>>

SinIrr == [kind |-> "unset", r |-> Zero]
SinMetricas == [n_cuotas |-> 0, cuota_total_promedio |-> Zero, cft |-> Zero]
SinRetorno == [found |-> FALSE]

\* mejor_opcion = {"cft_%": float('inf')}
MejorInicial == [cft |-> Inf]

Init ==
    /\ monto_prestamo \in MontoSet
    /\ tna \in TnaSet
    /\ gastos_admin_fijos \in GastosSet
    /\ iva_porcentaje \in IvaSet
    /\ \/ /\ op = "generar"
          /\ n_cuotas \in 0..MaxN
          /\ cuota_maxima_pagar = Zero
          /\ rango_cuotas = <<1, 1>>
          /\ n = 0
       \/ /\ op = "optimizar"
          /\ n_cuotas = 0
          /\ cuota_maxima_pagar \in CuotaMaxSet
          /\ rango_cuotas \in {<<a, b>> \in (1..MaxN) \X (1..MaxN) : a <= b}
          /\ n = rango_cuotas[1]
    /\ pc = "start"
    /\ mejor_opcion = MejorInicial
    /\ resultados_validos = <<>>
    /\ cft_mensual = SinIrr
    /\ cuadro_df = <<>>
    /\ metricas = SinMetricas
    /\ retorno = SinRetorno
    /\ excepcion = "none"
    /\ cuadro_optimo = <<>>

\* ------------------------------------------------------------ actions

\* A call generar_cuadro_marcha(monto_prestamo, n_cuotas, tna, ...).  With no
\* rows the DataFrame has no columns and cuadro_df['Interés'] raises KeyError.
GenerarCuadroMarcha ==
    /\ op = "generar" /\ pc = "start"
    /\ LET cuadro == Cuadro(monto_prestamo, n_cuotas, tna, gastos_admin_fijos,
                            iva_porcentaje)
       IN  IF cuadro = <<>>
           THEN /\ pc' = "raised"
                /\ excepcion' = "KeyError"
                /\ UNCHANGED <<cft_mensual, cuadro_df, metricas>>
           ELSE \E irr \in NpfIrr(FlujoCaja(monto_prestamo, cuadro)) :
                /\ cft_mensual' = irr
                /\ cuadro_df' = cuadro
                /\ metricas' = Metricas(cuadro, n_cuotas, irr)
                /\ pc' = "returned"
                /\ UNCHANGED excepcion
    /\ UNCHANGED <<args, n, mejor_opcion, resultados_validos, retorno,
                   cuadro_optimo>>

\* metricas["cuota_total_promedio"] <= cuota_maxima_pagar
Asequible(m, cuota_maxima) == FLe(m.cuota_total_promedio, cuota_maxima)

\* Mutant: the comparison is not strict, so a later tie replaces the best.
MejoraNoEstricta(opcion_actual, mejor) == FLe(opcion_actual.cft, mejor.cft)

\* opcion_actual["cft_%"] < mejor_opcion["cft_%"]
Mejora(opcion_actual, mejor) == FLt(opcion_actual.cft, mejor.cft)

\* Mutant: range(rango[0], rango[1]) leaves the upper count out.
UltimoNExcluido(rango) == rango[2] - 1

\* The last count the loop visits: range(rango[0], rango[1] + 1).
UltimoN(rango) == rango[2]

\* One pass of optimizar_prestamo's loop, for the count n.
OptimizarIter ==
    /\ op = "optimizar" /\ pc \in {"start", "loop"}
    /\ n <= UltimoN(rango_cuotas)
    /\ LET cuadro == Cuadro(monto_prestamo, n, tna, gastos_admin_fijos,
                            iva_porcentaje)
       IN  IF cuadro = <<>>
           THEN /\ pc' = "raised"
                /\ excepcion' = "KeyError"
                /\ UNCHANGED <<n, resultados_validos, mejor_opcion>>
           ELSE \E irr \in NpfIrr(FlujoCaja(monto_prestamo, cuadro)) :
                LET m == Metricas(cuadro, n, irr)
                    opcion_actual == [ n_cuotas |-> n, cft |-> m.cft,
                                       cuota_total |-> m.cuota_total_promedio ]
                IN  /\ IF Asequible(m, cuota_maxima_pagar)
                       THEN /\ resultados_validos' =
                                   Append(resultados_validos, opcion_actual)
                            /\ mejor_opcion' =
                                   IF Mejora(opcion_actual, mejor_opcion)
                                   THEN opcion_actual ELSE mejor_opcion
                       ELSE UNCHANGED <<resultados_validos, mejor_opcion>>
                    /\ n' = n + 1
                    /\ pc' = "loop"
                    /\ UNCHANGED excepcion
    /\ UNCHANGED <<args, cft_mensual, cuadro_df, metricas, retorno,
                   cuadro_optimo>>

\* The loop is over: (None, None) or (mejor_opcion, resultados_validos).
OptimizarReturn ==
    /\ op = "optimizar" /\ pc \in {"start", "loop"}
    /\ n > UltimoN(rango_cuotas)
    /\ retorno' = IF resultados_validos = <<>>
                  THEN [found |-> FALSE]
                  ELSE [found |-> TRUE, mejor_plan |-> mejor_opcion,
                        df_validos |-> resultados_validos]
    /\ pc' = "returned"
    /\ UNCHANGED <<args, n, mejor_opcion, resultados_validos, cft_mensual,
                   cuadro_df, metricas, excepcion, cuadro_optimo>>

\* The page after the search: the best plan's schedule, or the error text.
MostrarResultado ==
    /\ op = "optimizar" /\ pc = "returned"
    /\ IF retorno.found
       THEN cuadro_optimo' = Cuadro(monto_prestamo, retorno.mejor_plan.n_cuotas,
                                    tna, gastos_admin_fijos, iva_porcentaje)
       ELSE UNCHANGED cuadro_optimo
    /\ pc' = "done"
    /\ UNCHANGED <<args, n, mejor_opcion, resultados_validos, cft_mensual,
                   cuadro_df, metricas, retorno, excepcion>>

Next ==
    \/ GenerarCuadroMarcha
    \/ OptimizarIter
    \/ OptimizarReturn
    \/ MostrarResultado

Spec == Init /\ [][Next]_vars


\* -------------------------------------------------------------- claims

FAbs(a) == <<Abs(a[1]), a[2]>>

\* A direct call of generar_cuadro_marcha has returned.
Generado == op = "generar" /\ pc = "returned"

\* The mean total payment of the schedule for k instalments.
PromedioDe(k) ==
    ColMean(Cuadro(monto_prestamo, k, tna, gastos_admin_fijos, iva_porcentaje),
            "CuotaTotal")

\* The affordable counts among lo..hi.
Asequibles(lo, hi) ==
    {k \in lo..hi : FLe(PromedioDe(k), cuota_maxima_pagar)}

EsMejorDe(mejor, validos) ==
    /\ \E i \in 1..Len(validos) : validos[i] = mejor
    /\ mejor.n_cuotas \in Asequibles(rango_cuotas[1], rango_cuotas[2])
    /\ mejor.cuota_total = PromedioDe(mejor.n_cuotas)
    /\ \A j \in 1..Len(validos) :
          /\ FLe(mejor.cft, validos[j].cft)
          /\ validos[j].cft = mejor.cft => mejor.n_cuotas <= validos[j].n_cuotas

\* C1: whenever some count examined so far is affordable, the running best
\* of optimizar_prestamo is one of the affordable candidates, no candidate
\* has a lower cost rate, and among the candidates of that cost rate it has
\* the lowest n; the plan returned is that running best.
C1_MejorEsMinimoPrimero ==
    op = "optimizar" =>
        /\ resultados_validos # <<>> => EsMejorDe(mejor_opcion, resultados_validos)
        /\ (pc \in {"returned", "done"} /\ retorno.found) =>
               /\ retorno.mejor_plan = mejor_opcion
               /\ EsMejorDe(retorno.mejor_plan, retorno.df_validos)

\* Two candidates tie at the minimum cost and the earlier one is returned.
C1_Witness ==
    /\ op = "optimizar" /\ pc = "returned" /\ retorno.found
    /\ \E i, j \in 1..Len(retorno.df_validos) :
          /\ i < j
          /\ retorno.df_validos[i].cft = retorno.df_validos[j].cft
          /\ retorno.mejor_plan = retorno.df_validos[i]

\* C2: optimizar_prestamo never raises; it returns (None, None) exactly when
\* no count of the range is affordable, and otherwise a list with one entry
\* per affordable count, none for the others, in increasing order of n.
C2_NoEncontradoSiiNingunoAsequible ==
    op = "optimizar" =>
        /\ pc # "raised" /\ excepcion = "none"
        /\ pc \in {"returned", "done"} =>
              LET aseq == Asequibles(rango_cuotas[1], rango_cuotas[2])
              IN  /\ retorno.found <=> aseq # {}
                  /\ retorno.found =>
                        LET df == retorno.df_validos
                        IN  /\ {df[i].n_cuotas : i \in 1..Len(df)} = aseq
                            /\ \A i \in 1..(Len(df) - 1) :
                                  df[i].n_cuotas < df[i + 1].n_cuotas

\* A search that kept two counts and dropped an unaffordable one.
C2_Witness ==
    /\ op = "optimizar" /\ pc = "returned" /\ retorno.found
    /\ Len(retorno.df_validos) >= 2
    /\ Len(retorno.df_validos) < rango_cuotas[2] - rango_cuotas[1] + 1

\* C3: the closing balance of the last row of every schedule is exactly 0.
C3_SaldoFinalCero ==
    /\ Generado => cuadro_df[Len(cuadro_df)].SaldoFinal = Zero
    /\ cuadro_optimo # <<>> => cuadro_optimo[Len(cuadro_optimo)].SaldoFinal = Zero

\* A schedule whose rounding drift the forced last amortization absorbed.
C3_Witness ==
    /\ Generado /\ n_cuotas >= 2
    /\ LET ultima == cuadro_df[Len(cuadro_df)]
       IN  /\ FSub(ultima.CuotaPura, ultima.Interes) # ultima.SaldoInicial
           /\ ultima.SaldoFinal = Zero

\* C4 as stated: the amortization column sums to the principal exactly.
C4_SumaExacta ==
    Generado => ColSum(cuadro_df, "Amortizacion", Len(cuadro_df)) = monto_prestamo

\* Two units in the last place of the principal for each row.
Tolerancia(filas, monto) == Round(2 * filas, monto[2])

\* C4 (amended): the amortization column sums to the principal up to the
\* accumulated rounding, at most two units in the last place per row.
C4_SumaDentroDeTolerancia ==
    Generado =>
        FLe(FAbs(FSub(ColSum(cuadro_df, "Amortizacion", Len(cuadro_df)),
                      monto_prestamo)),
            Tolerancia(Len(cuadro_df), monto_prestamo))

\* A schedule whose amortization sum is off the principal by rounding only.
C4_Witness ==
    /\ Generado /\ n_cuotas >= 2
    /\ ColSum(cuadro_df, "Amortizacion", Len(cuadro_df)) # monto_prestamo

\* C5: a call with n_cuotas = 0 either returns an empty schedule with zero
\* metrics or is rejected with an explicit invalid-argument error.
C5_CeroCuotasDefinido ==
    (op = "generar" /\ n_cuotas = 0 /\ pc # "start") =>
        \/ pc = "returned" /\ cuadro_df = <<>> /\ metricas = SinMetricas
        \/ pc = "raised" /\ excepcion = "ValueError"

C7_IvaSoloSobreInteresYGastos ==
    Generado =>
        \A i \in 1..Len(cuadro_df) :
            LET f == cuadro_df[i]
            IN  /\ f.IVA = FAdd(FMul(f.Interes, iva_porcentaje),
                                FMul(f.GastosAdmin, iva_porcentaje))
                /\ f.CuotaTotal =
                       FAdd(f.CuotaPura,
                            FAdd(FAdd(f.GastosAdmin,
                                      FMul(f.Interes, iva_porcentaje)),
                                 FMul(f.GastosAdmin, iva_porcentaje)))
                /\ f.GastosAdmin = gastos_admin_fijos
                /\ f.CuotaPura = cuadro_df[1].CuotaPura

\* A taxed schedule with interest whose last amortization was forced.
C7_Witness ==
    /\ Generado /\ n_cuotas >= 2
    /\ iva_porcentaje # Zero /\ gastos_admin_fijos # Zero
    /\ cuadro_df[Len(cuadro_df)].Interes # Zero
    /\ cuadro_df[Len(cuadro_df)].Amortizacion #
           FSub(cuadro_df[Len(cuadro_df)].CuotaPura,
                cuadro_df[Len(cuadro_df)].Interes)

\* The solve handed back no usable rate.
IrrFallido(x) ==
    \/ x.kind \in {"nan", "None", "ValueError"}
    \/ x.kind = "rate" /\ FLe(x.r, FNeg(One))

\* C8: when the rate solve fails, has no solution or gives a rate <= -1,
\* the call still returns its schedule and reports a cost rate of 0; in
\* every other case it reports ((1 + r)^12 - 1) * 100.
C8_IrrFallidoDaCero ==
    /\ (op = "generar" /\ pc = "raised") => n_cuotas = 0
    /\ Generado =>
          /\ cuadro_df = Cuadro(monto_prestamo, n_cuotas, tna,
                                gastos_admin_fijos, iva_porcentaje)
          /\ cuadro_df # <<>>
          /\ excepcion = "none"
          /\ IF IrrFallido(cft_mensual)
             THEN metricas.cft = Zero
             ELSE metricas.cft =
                      FMul(FSub(Pow12(FAdd(One, cft_mensual.r)), One),
                           FromInt(100))

\* The solve raised, and the call returned a schedule with cost rate 0.
C8_Witness ==
    /\ Generado /\ cft_mensual.kind = "ValueError"
    /\ cuadro_df # <<>> /\ metricas.cft = Zero

\* C9: the rows are periods 1..n_cuotas in order, the first opens at the
\* principal, each closes at its opening balance minus its amortization,
\* and each opens at the closing balance of the row before.
C9_FilasEncadenadas ==
    Generado =>
        /\ Len(cuadro_df) = n_cuotas
        /\ cuadro_df[1].SaldoInicial = monto_prestamo
        /\ \A i \in 1..Len(cuadro_df) :
              /\ cuadro_df[i].NCuota = i
              /\ cuadro_df[i].SaldoFinal =
                     FSub(cuadro_df[i].SaldoInicial, cuadro_df[i].Amortizacion)
        /\ \A k \in 1..(Len(cuadro_df) - 1) :
              cuadro_df[k].SaldoFinal = cuadro_df[k + 1].SaldoInicial

\* A three-row schedule at a positive rate.
C9_Witness ==
    /\ Generado /\ n_cuotas >= 3 /\ tna # Zero
    /\ cuadro_df[2].SaldoFinal # cuadro_df[2].SaldoInicial

\* C10: at tna = 0 the pure installment is principal / n_cuotas, every
\* row's interest is 0, and every total payment is that installment plus
\* the fee plus the tax on the fee.
C10_TasaCero ==
    (Generado /\ tna = Zero) =>
        \A i \in 1..Len(cuadro_df) :
            /\ cuadro_df[i].CuotaPura = FDiv(monto_prestamo, FromInt(n_cuotas))
            /\ cuadro_df[i].Interes = Zero
            /\ cuadro_df[i].CuotaTotal =
                   FAdd(FDiv(monto_prestamo, FromInt(n_cuotas)),
                        FAdd(gastos_admin_fijos,
                             FMul(gastos_admin_fijos, iva_porcentaje)))

\* A zero-rate schedule of several rows with a fee and tax.
C10_Witness ==
    /\ Generado /\ tna = Zero /\ n_cuotas >= 2
    /\ gastos_admin_fijos # Zero /\ iva_porcentaje # Zero

====
